---- MODULE Spec2Model ----
(***************************************************************************)
(* A model of convert.js: the export callback of processExport (selection  *)
(* of the posts, distributed sampling, launch of one processPost pipeline  *)
(* per selected post), the image localizer (processImages / processImage / *)
(* downloadFile) and the tail of processPost (markup conversion, header,   *)
(* output file), with the process-level unhandledRejection handler.        *)
(*                                                                         *)
(* Text is modelled as a sequence of atoms (short literal strings).  A URL *)
(* is the sequence of its parts: a scheme-and-host atom, path atoms, an    *)
(* extension atom, query atoms.  Substring search and replacement, entity  *)
(* decoding, trimming, the <img src=...> scan and the URL/path parsing are *)
(* computed on these sequences the way the code computes them on strings.  *)
(***************************************************************************)
EXTENDS Integers, Sequences, FiniteSets, TLC

\* Bounds of the model.
MaxPosts == 4
MaxRunPosts == 2
MaxTags == 2

VARIABLES
    allPosts,            \* the posts of the export, in document order
    limit,               \* --limit=N, 0 when absent or invalid
    served,              \* content types the remote hosts answer with
    phase,               \* position of the export callback
    postsByFirstLetter,  \* sampler: first letter -> queue of posts
    letterGroups,        \* sampler: the letters, biggest group first
    postsToProcess,      \* the selection
    remainingLimit,      \* sampler loop variable
    letterIndex,         \* sampler loop variable (0-based, as in the code)
    iters,               \* number of iterations the sampler loop has made
    reported,            \* N of "processed N posts", -1 before the report
    pipe,                \* the launched processPost pipelines, in launch order
    files,               \* image files on disk: [dir, name, type]
    dirs,                \* image directories on disk
    mdx,                 \* output documents on disk (slugs)
    requests,            \* HTTP requests issued: [slug, pass, url]
    exited               \* process.exit(1) was called

vars == <<allPosts, limit, served, phase, postsByFirstLetter, letterGroups,
          postsToProcess, remainingLimit, letterIndex, iters, reported, pipe,
          files, dirs, mdx, requests, exited>>

inputVars == <<allPosts, limit, served>>

samplerVars == <<postsByFirstLetter, letterGroups, postsToProcess,
                 remainingLimit, letterIndex, iters>>

diskVars == <<files, dirs, mdx, requests>>

----------------------------------------------------------------------------
\* Text helpers.

Last(s) == s[Len(s)]

SeqToSet(s) == {s[i] : i \in 1..Len(s)}

\* s.indexOf(p) # -1
Contains(s, p) ==
    \E i \in 1..(Len(s) - Len(p) + 1) : SubSeq(s, i, i + Len(p) - 1) = p

\* String.prototype.replace with a global regex made of the escaped pattern:
\* every non-overlapping literal occurrence, left to right, the replaced
\* text is not scanned again.
RECURSIVE ReplaceAll(_, _, _)
ReplaceAll(s, p, r) ==
    IF Len(p) = 0 \/ Len(s) < Len(p) THEN s
    ELSE IF SubSeq(s, 1, Len(p)) = p
         THEN r \o ReplaceAll(SubSeq(s, Len(p) + 1, Len(s)), p, r)
         ELSE <<Head(s)>> \o ReplaceAll(Tail(s), p, r)

\* he.decode
htmlentitiesDecode(s) ==
    [i \in 1..Len(s) |-> IF s[i] = "&amp;" THEN "&" ELSE s[i]]

IsSpace(a) == a = " "

RECURSIVE TrimLeft(_)
TrimLeft(s) ==
    IF Len(s) > 0 /\ IsSpace(Head(s)) THEN TrimLeft(Tail(s)) ELSE s

RECURSIVE TrimRight(_)
TrimRight(s) ==
    IF Len(s) > 0 /\ IsSpace(Last(s))
    THEN TrimRight(SubSeq(s, 1, Len(s) - 1)) ELSE s

\* String.prototype.trim
trim(s) == TrimRight(TrimLeft(s))

\* [...new Set(list)]: first occurrences, in order
RECURSIVE Dedupe(_)
Dedupe(s) ==
    IF Len(s) = 0 THEN <<>>
    ELSE LET d == Dedupe(SubSeq(s, 1, Len(s) - 1))
         IN IF Last(s) \in SeqToSet(d) THEN d ELSE Append(d, Last(s))

----------------------------------------------------------------------------
\* The image tag scan.

OPEN == "<img src='"
CLOSE == "'>"

\* The next CLOSE atom at or after position j, 0 when there is none.
RECURSIVE NextClose(_, _)
NextClose(body, j) ==
    IF j > Len(body) THEN 0
    ELSE IF body[j] = CLOSE THEN j ELSE NextClose(body, j + 1)

\* [...body.matchAll(/<img[^>]+src=["']([^"']+)["']/g)], the captured groups.
RECURSIVE MatchFrom(_, _)
MatchFrom(body, i) ==
    IF i > Len(body) THEN <<>>
    ELSE IF body[i] # OPEN THEN MatchFrom(body, i + 1)
    ELSE LET j == NextClose(body, i + 1)
         IN IF j > i + 1
            THEN <<SubSeq(body, i + 1, j - 1)>> \o MatchFrom(body, j + 1)
            ELSE MatchFrom(body, i + 1)

imgMatches(body) == MatchFrom(body, 1)

----------------------------------------------------------------------------
\* URLs and paths.

Hosts == {"http://a/", "http://b/"}

\* An atom that opens the query part of a URL.
IsQuery(a) == a \in {"?w=1", "?a"}

EndsInSlash(a) == a \in Hosts \cup {"/", "./"}

\* node-fetch takes absolute http(s) URLs only; anything else rejects
\* before a request is made.
IsAbsolute(u) == Len(u) > 0 /\ u[1] \in Hosts

\* url.startsWith("http")
StartsWithHttp(u) == Len(u) > 0 /\ u[1] \in Hosts

RECURSIVE BeforeQuery(_)
BeforeQuery(s) ==
    IF Len(s) = 0 \/ IsQuery(Head(s)) THEN <<>>
    ELSE <<Head(s)>> \o BeforeQuery(Tail(s))

RECURSIVE DropDotSegments(_)
DropDotSegments(s) ==
    IF Len(s) = 0 THEN <<>>
    ELSE IF Head(s) = "./" THEN DropDotSegments(Tail(s))
    ELSE <<Head(s)>> \o DropDotSegments(Tail(s))

\* new URL(u).pathname, without its leading slash
Pathname(u) == DropDotSegments(BeforeQuery(Tail(u)))

RECURSIVE DropTrailingSlashes(_)
DropTrailingSlashes(p) ==
    IF Len(p) > 0 /\ EndsInSlash(Last(p))
    THEN DropTrailingSlashes(SubSeq(p, 1, Len(p) - 1)) ELSE p

RECURSIVE AfterLastSlash(_)
AfterLastSlash(p) ==
    IF Len(p) = 0 \/ EndsInSlash(Last(p)) THEN <<>>
    ELSE Append(AfterLastSlash(SubSeq(p, 1, Len(p) - 1)), Last(p))

\* path.parse(pathname).base
PathBase(p) == AfterLastSlash(DropTrailingSlashes(p))

\* The extension a file name ends with, "" when it has none.
ExtOf(name) ==
    IF Len(name) = 0 THEN ""
    ELSE CASE Last(name) = ".png" -> "png"
           [] Last(name) = ".gif" -> "gif"
           [] Last(name) = ".php" -> "php"
           [] OTHER -> ""

\* img.endsWith("gif")
EndsWithGif(name) == Len(name) > 0 /\ Last(name) \in {".gif", "gif"}

----------------------------------------------------------------------------
\* The inputs the model explores.

A1 == <<"http://a/", "x", ".png">>
A1q == <<"http://a/", "x", ".png", "?w=1">>
B1 == <<"http://b/", "x", ".png">>
G == <<"http://a/", "y", ".gif">>
P == <<"http://a/", "z", ".php">>
\* a URL written with an HTML entity in its query
E == <<"http://a/", "x", ".png", "?a", "&amp;", "b">>
\* a URL written with surrounding whitespace
W == <<" ", "http://a/", "y", ".gif", " ">>
\* a URL with no file name (the site root)
Root == <<"http://a/">>
\* a whitespace-only src attribute
Blank == <<" ">>
\* a reference that is already relative to the document of post 1
Rel == <<"./", "p1", "/", "x", ".png">>
\* URLs whose path holds the text of such a relative reference
V == <<"http://a/", "./", "p1", "/", "x", ".png">>
U == <<"http://a/", "http://a/", "./", "p1", "/", "x", ".png">>

TagURLs == {A1, A1q, B1, G, P, E, W, Blank, Rel, V, U}
TextURLs == {A1, <<"http://a/", "x", ".png", "?a", "&", "b">>}

Tag(u) == <<OPEN>> \o u \o <<CLOSE>>
Text(u) == <<"see ">> \o u

Segments == {Tag(u) : u \in TagURLs} \cup {Text(u) : u \in TextURLs}

RECURSIVE Concat(_)
Concat(ss) == IF Len(ss) = 0 THEN <<>> ELSE Head(ss) \o Concat(Tail(ss))

\* Bodies of up to MaxTags segments.
Bodies == {Concat(ss) : ss \in UNION {[1..n -> Segments] : n \in 0..MaxTags}}

\* Values of the opengraph-image / twitter-image metadata entries of a post.
HeroMetas == {<<>>, <<G>>, <<P>>, <<Root>>, <<Rel, A1>>}

\* Titles: upper and lower case, leading whitespace, a digit.
Titles == {<<"a">>, <<"A">>, <<" ", "b">>, <<"1">>}

SlugNames == <<"p1", "p2", "p3", "p4", "p5", "p6">>

Types == {"png", "gif"}

DefaultHero == <<"../../../defaultHero.jpg">>

\* The posts of an export: a sequence of up to maxN posts, each of one of
\* the given kinds ([title, body, hero]), numbered in document order.
PostSeqs(maxN, kinds) ==
    UNION {{[i \in 1..n |-> [id |-> i, title |-> ks[i].title,
                             body |-> ks[i].body, hero |-> ks[i].hero]] :
               ks \in [1..n -> kinds]} : n \in 0..maxN}

\* The posts of the small export: one without images, one with two body
\* images (the second written with an entity), one with a body image and a
\* metadata hero image.
RunKinds ==
    {[title |-> <<"a">>, body |-> <<>>, hero |-> <<>>],
     [title |-> <<" ", "b">>, body |-> Tag(G) \o Tag(E), hero |-> <<>>],
     [title |-> <<"A">>, body |-> Tag(A1), hero |-> <<G>>]}

----------------------------------------------------------------------------
\* The distributed sampler of processExport.

Lower(c) == CASE c = "A" -> "a" [] c = "B" -> "b" [] OTHER -> c

\* title.trim().charAt(0).toLowerCase()
FirstLetter(title) ==
    LET t == trim(title) IN IF Len(t) = 0 THEN "" ELSE Lower(t[1])

\* A property name that is an array index: Object.keys lists these first.
IsIndexKey(l) == l \in {"1"}

IsNameKey(l) == ~IsIndexKey(l)

\* postsByFirstLetter after the forEach: each letter's posts in document order
Buckets(posts) ==
    [l \in {FirstLetter(posts[i].title) : i \in 1..Len(posts)} |->
        SelectSeq(posts, LAMBDA p : FirstLetter(p.title) = l)]

\* Object.keys(postsByFirstLetter)
ObjectKeys(posts) ==
    LET ks == Dedupe([i \in 1..Len(posts) |-> FirstLetter(posts[i].title)])
    IN SelectSeq(ks, IsIndexKey) \o SelectSeq(ks, IsNameKey)

\* keys.sort((a, b) => size[b] - size[a]): stable, biggest group first
RECURSIVE SortBySize(_, _)
SortBySize(ks, b) ==
    IF Len(ks) = 0 THEN <<>>
    ELSE LET rest == SortBySize(SubSeq(ks, 1, Len(ks) - 1), b)
             k == Last(ks)
             n == Cardinality({i \in 1..Len(rest) : Len(b[rest[i]]) >= Len(b[k])})
         IN SubSeq(rest, 1, n) \o <<k>> \o SubSeq(rest, n + 1, Len(rest))

LetterGroups(posts) == SortBySize(ObjectKeys(posts), Buckets(posts))

\* The branch condition of the limited-sampling branch.
Sampling(posts, lim) == lim > 0 /\ lim < Len(posts)

SamplerStart(posts, lim) ==
    [buckets |-> Buckets(posts), out |-> <<>>, remainingLimit |-> lim,
     letterIndex |-> 0, iters |-> 0, brk |-> FALSE]

\* The while condition.
LoopCond(st, groups) ==
    ~st.brk /\ st.remainingLimit > 0 /\ st.letterIndex < Len(groups)

\* Mutant of NextLetterIndex: the index is not wrapped round to the first group.
NextLetterIndexNoWrap(i, n) == i + 1

\* letterIndex = (letterIndex + 1) % letterGroups.length
NextLetterIndex(i, n) == (i + 1) % n

\* One iteration of the while loop.
LoopStep(st, groups) ==
    LET letter == groups[st.letterIndex + 1]
        take == Len(st.buckets[letter]) > 0
        b2 == IF take
              THEN [st.buckets EXCEPT ![letter] = Tail(@)] ELSE st.buckets
        idx == NextLetterIndex(st.letterIndex, Len(groups))
    IN [buckets |-> b2,
        out |-> IF take THEN Append(st.out, Head(st.buckets[letter])) ELSE st.out,
        remainingLimit |-> IF take THEN st.remainingLimit - 1 ELSE st.remainingLimit,
        letterIndex |-> idx,
        iters |-> st.iters + 1,
        brk |-> idx = 0 /\ \A l \in DOMAIN b2 : Len(b2[l]) = 0]

RECURSIVE RunLoop(_, _)
RunLoop(st, groups) ==
    IF LoopCond(st, groups) THEN RunLoop(LoopStep(st, groups), groups) ELSE st

\* The sampler's variables as the record the loop works on.
SamplerState ==
    [buckets |-> postsByFirstLetter, out |-> postsToProcess,
     remainingLimit |-> remainingLimit, letterIndex |-> letterIndex,
     iters |-> iters, brk |-> phase # "sampling"]

SetSampler(st) ==
    /\ postsByFirstLetter' = st.buckets
    /\ postsToProcess' = st.out
    /\ remainingLimit' = st.remainingLimit
    /\ letterIndex' = st.letterIndex
    /\ iters' = st.iters

----------------------------------------------------------------------------
\* downloadFile and processImage.

\* slugify(title): the model gives every post a slug of its own.
Slug(post) == SlugNames[post.id]

\* htmlentities.decode(url).trim()
CleanUrl(url) == trim(htmlentitiesDecode(url))

\* What awaiting downloadFile(cleanUrl) can give: a rejection (network error,
\* non-OK status, or a URL fetch refuses), or a response whose bytes are of
\* one of the served content types.
FetchOutcomes(cleanUrl, types) ==
    {[ok |-> FALSE, type |-> ""]} \cup
    (IF IsAbsolute(cleanUrl) THEN {[ok |-> TRUE, type |-> t] : t \in types} ELSE {})

\* Whether fetch(cleanUrl) sends a request.
SendsRequest(cleanUrl) == IsAbsolute(cleanUrl)

\* const imageName = path.parse(new URL(cleanUrl).pathname).base
ImageName(cleanUrl, type) == PathBase(Pathname(cleanUrl))

\* `./${path.basename(directory)}/${imageName}`
RelImagePath(slug, imageName) == <<"./", slug, "/">> \o imageName

\* Mutant of DirsAfter: the directory is made before the download is known
\* to have succeeded.
DirsAfterEager(ds, slug, ok) == ds \cup {slug}

\* The directories on disk after a processImage call: mkdirSync runs only
\* once the download has succeeded.
DirsAfter(ds, slug, ok) == IF ok THEN ds \cup {slug} ELSE ds

\* processImage from the point where the awaited download settles, for the
\* call c = [k, url, postData] on the asset list imgs: the returned pair and
\* the disk afterwards.  A rejected download, or a write that throws (the
\* name is empty, so the path is the directory), returns the arguments.
ImageResult(c, resp, slug, imgs, fs, ds) ==
    LET cleanUrl == CleanUrl(c.url)
        imageName == ImageName(cleanUrl, resp.type)
        wrote == resp.ok /\ Len(imageName) > 0
    IN [postData |-> IF wrote
                     THEN ReplaceAll(c.postData, cleanUrl, RelImagePath(slug, imageName))
                     ELSE c.postData,
        images |-> IF wrote THEN Append(imgs, imageName) ELSE imgs,
        files |-> IF wrote
                  THEN {f \in fs : ~(f.dir = slug /\ f.name = imageName)}
                       \cup {[dir |-> slug, name |-> imageName, type |-> resp.type]}
                  ELSE fs,
        dirs |-> DirsAfter(ds, slug, resp.ok),
        wrote |-> wrote,
        name |-> imageName]

----------------------------------------------------------------------------
\* processImages.

\* The next match at or after k whose trimmed URL is not empty, 0 if none.
RECURSIVE NextCall(_, _)
NextCall(ms, k) ==
    IF k > Len(ms) THEN 0
    ELSE IF Len(trim(ms[k])) > 0 THEN k ELSE NextCall(ms, k + 1)

\* The body handed to the next processImage call of the loop.
CallBody(original, updated) == updated

\* Mutant of LoopCalls: the calls for all the remaining matches are started
\* together, not awaited one by one.
LoopCallsAll(ms, k, body) ==
    {[k |-> j, url |-> trim(ms[j]), postData |-> body] :
        j \in {i \in k..Len(ms) : Len(trim(ms[i])) > 0}}

\* The calls the loop has in flight once it has reached match k: it awaits
\* each call before it goes on to the next match.
LoopCalls(ms, k, body) == {[k |-> k, url |-> trim(ms[k]), postData |-> body]}

\* images.find((img) => !img.endsWith("gif")), <<>> for undefined
FindHero(imgs) ==
    LET ok == {i \in 1..Len(imgs) : ~EndsWithGif(imgs[i])}
    IN IF ok = {} THEN <<>>
       ELSE imgs[CHOOSE i \in ok : \A j \in ok : i <= j]

\* `hero: ${heroImage || "../../../defaultHero.jpg"}`
HeroLine(heroImage) == IF Len(heroImage) = 0 THEN DefaultHero ELSE heroImage

\* The loop of processImages from match k on, with the body and the asset
\* list as they stand: either the next call is started, or the function
\* returns and processPost goes on to the hero choice and the conversion.
ContinueLoop(p, body, imgs, k) ==
    LET n == NextCall(p.matches, k)
    IN IF n = 0
       THEN [p EXCEPT !.pc = "convert", !.postData = body, !.images = imgs,
                      !.fetching = {}, !.heroField = HeroLine(FindHero(imgs))]
       ELSE [p EXCEPT !.pc = "img", !.postData = body, !.images = imgs,
                      !.fetching = LoopCalls(p.matches, n,
                                             CallBody(p.passInput, body))]

\* processImages({postData: body}) up to its first await or its return.
EnterImages(p, body) ==
    IF Len(body) = 0
    THEN [p EXCEPT !.pc = "convert", !.postData = body, !.images = <<>>,
                   !.passInput = body, !.matches = <<>>, !.fetching = {},
                   !.heroField = HeroLine(FindHero(<<>>))]
    ELSE ContinueLoop([p EXCEPT !.matches = imgMatches(body),
                                !.passInput = body], body, <<>>, 1)

----------------------------------------------------------------------------
\* processPost.

\* heroURLs: the metadata values that start with "http"
heroURLs(post) == SelectSeq(post.hero, StartsWithHttp)

\* processPost(post) up to its first await.
Launch(post) ==
    LET p0 == [post |-> post, slug |-> Slug(post), pc |-> "new",
               postData |-> post.body, images |-> <<>>, matches |-> <<>>,
               fetching |-> {}, calls |-> <<>>, saved |-> <<>>,
               heroField |-> <<>>, pass |-> 1, passInput |-> post.body]
        hs == heroURLs(post)
    IN IF Len(hs) > 0
       THEN [p0 EXCEPT !.pc = "hero",
                       !.fetching = {[k |-> 0, url |-> hs[1],
                                      postData |-> post.body]}]
       ELSE EnterImages(p0, post.body)

\* The requests that the calls in flight of pipeline p have sent.
RequestsOf(p) ==
    {[slug |-> p.slug, pass |-> p.pass, url |-> CleanUrl(c.url)] :
        c \in {d \in p.fetching : SendsRequest(CleanUrl(d.url))}}

\* Mutant of ReportedCount: the pipelines that have settled are counted.
ReportedSettled(results) ==
    Cardinality({r \in 1..Len(results) : results[r].pc \in {"done", "rejected"}})

\* N of "processed N posts": results.length
ReportedCount(results) == Len(results)

\* postsToProcess as the export callback computes it.
Selection(posts, lim) ==
    IF Sampling(posts, lim)
    THEN RunLoop(SamplerStart(posts, lim), LetterGroups(posts))
    ELSE [buckets |-> <<>>, out |-> posts, remainingLimit |-> 0,
          letterIndex |-> 0, iters |-> 0, brk |-> FALSE]

----------------------------------------------------------------------------
\* Initial states.

InitRest ==
    /\ phase = "start"
    /\ postsByFirstLetter = <<>>
    /\ letterGroups = <<>>
    /\ postsToProcess = <<>>
    /\ remainingLimit = 0
    /\ letterIndex = 0
    /\ iters = 0
    /\ reported = -1
    /\ pipe = <<>>
    /\ files = {}
    /\ dirs = {}
    /\ mdx = {}
    /\ requests = {}
    /\ exited = FALSE

\* A run over a small export: posts with and without images and hero
\* metadata, with and without a limit.
Init ==
    /\ allPosts \in PostSeqs(MaxRunPosts, RunKinds)
    /\ limit \in 0..MaxRunPosts
    /\ served = {"png"}
    /\ InitRest

\* One post, over all the bodies and hero metadata of the model.
InitLocalize ==
    /\ allPosts \in PostSeqs(1, {[title |-> <<"a">>, body |-> b, hero |-> h] :
                                     b \in Bodies, h \in HeroMetas}) \ {<<>>}
    /\ limit = 0
    /\ served = Types
    /\ InitRest

\* The sampler alone: posts by title, every limit.
InitSample ==
    /\ allPosts \in PostSeqs(MaxPosts, {[title |-> t, body |-> <<>>, hero |-> <<>>] :
                                            t \in Titles})
    /\ limit \in 0..MaxPosts
    /\ served = {"png"}
    /\ InitRest

----------------------------------------------------------------------------
\* The export callback, in one step: selection, launch of every pipeline up
\* to its first await, and the report.
ProcessExport ==
    /\ phase = "start"
    /\ ~exited
    /\ LET sel == Selection(allPosts, limit)
           results == [r \in 1..Len(sel.out) |-> Launch(sel.out[r])]
       IN /\ SetSampler(sel)
          /\ letterGroups' = IF Sampling(allPosts, limit)
                             THEN LetterGroups(allPosts) ELSE <<>>
          /\ pipe' = results
          /\ requests' = UNION {RequestsOf(results[r]) : r \in 1..Len(results)}
          /\ reported' = ReportedCount(results)
    /\ phase' = "launched"
    /\ UNCHANGED <<inputVars, files, dirs, mdx, exited>>

\* readFile or parseString hands the callback an error: it is logged and
\* nothing is launched.
ExportFails ==
    /\ phase = "start"
    /\ ~exited
    /\ phase' = "error"
    /\ UNCHANGED <<inputVars, samplerVars, reported, pipe, diskVars, exited>>

\* The record of a processImage call that returned.
CallRecord(p, c, resp, res) ==
    [k |-> c.k, url |-> c.url, ok |-> resp.ok, pass |-> p.pass,
     bodyIn |-> c.postData, bodyOut |-> res.postData, wrote |-> res.wrote,
     type |-> resp.type, name |-> res.name]

\* The download awaited by call c of pipeline r settles with resp: the rest
\* of processImage runs, then its caller up to the next await.
Settle(r, c, resp) ==
    LET p == pipe[r]
        res == ImageResult(c, resp, p.slug, p.images, files, dirs)
        logged == [p EXCEPT !.calls = Append(@, CallRecord(p, c, resp, res)),
                            !.saved = IF res.wrote THEN Append(@, res.name) ELSE @,
                            !.fetching = @ \ {c}]
        q == IF c.k = 0
             THEN EnterImages(logged, res.postData)
             ELSE ContinueLoop(logged, res.postData,
                               Dedupe(res.images \o res.images), c.k + 1)
    IN /\ pipe' = [pipe EXCEPT ![r] = q]
       /\ files' = res.files
       /\ dirs' = res.dirs
       /\ requests' = requests \cup RequestsOf(q)
       /\ UNCHANGED <<inputVars, phase, samplerVars, reported, mdx, exited>>

\* processPost: the hero download settles.
HeroFetched(r) ==
    /\ phase = "launched"
    /\ ~exited
    /\ \E c \in pipe[r].fetching :
          /\ c.k = 0
          /\ \E resp \in FetchOutcomes(CleanUrl(c.url), served) : Settle(r, c, resp)

\* processImages: the download of a body image settles.
ImageFetched(r) ==
    /\ phase = "launched"
    /\ ~exited
    /\ \E c \in pipe[r].fetching :
          /\ c.k > 0
          /\ \E resp \in FetchOutcomes(CleanUrl(c.url), served) : Settle(r, c, resp)

\* processPost: the markup conversion calls back, with the document or with
\* an error; on success the header is built and fs.writeFile is started, on
\* error the promise of processPost rejects.
ConvertDone(r) ==
    /\ phase = "launched"
    /\ ~exited
    /\ pipe[r].pc = "convert"
    /\ \E ok \in BOOLEAN :
          pipe' = [pipe EXCEPT ![r].pc = IF ok THEN "write" ELSE "rejected"]
    /\ UNCHANGED <<inputVars, phase, samplerVars, reported, diskVars, exited>>

\* The callback of fs.writeFile: the document is on disk, or the error is
\* logged.
WriteDone(r) ==
    /\ phase = "launched"
    /\ ~exited
    /\ pipe[r].pc = "write"
    /\ \E ok \in BOOLEAN :
          mdx' = IF ok THEN mdx \cup {pipe[r].slug} ELSE mdx
    /\ pipe' = [pipe EXCEPT ![r].pc = "done"]
    /\ UNCHANGED <<inputVars, phase, samplerVars, reported, files, dirs,
                   requests, exited>>

\* process.on('unhandledRejection'): logs and calls process.exit(1).
UnhandledRejection ==
    /\ ~exited
    /\ \E r \in DOMAIN pipe : pipe[r].pc = "rejected"
    /\ exited' = TRUE
    /\ UNCHANGED <<inputVars, phase, samplerVars, reported, pipe, diskVars>>

\* processImages is called again on the body it returned, all downloads of
\* the first run having succeeded.
Rerun(r) ==
    /\ phase = "launched"
    /\ ~exited
    /\ pipe[r].pc = "convert"
    /\ pipe[r].pass = 1
    /\ \A i \in 1..Len(pipe[r].calls) :
          pipe[r].calls[i].k > 0 => pipe[r].calls[i].ok
    /\ LET q == EnterImages([pipe[r] EXCEPT !.pass = 2], pipe[r].postData)
       IN /\ pipe' = [pipe EXCEPT ![r] = q]
          /\ requests' = requests \cup RequestsOf(q)
    /\ UNCHANGED <<inputVars, phase, samplerVars, reported, files, dirs, mdx,
                   exited>>

\* The sampler, one loop iteration at a time.
BeginSample ==
    /\ phase = "start"
    /\ Sampling(allPosts, limit)
    /\ SetSampler(SamplerStart(allPosts, limit))
    /\ letterGroups' = LetterGroups(allPosts)
    /\ phase' = "sampling"
    /\ UNCHANGED <<inputVars, reported, pipe, diskVars, exited>>

SelectAll ==
    /\ phase = "start"
    /\ ~Sampling(allPosts, limit)
    /\ postsToProcess' = allPosts
    /\ phase' = "selected"
    /\ UNCHANGED <<inputVars, postsByFirstLetter, letterGroups, remainingLimit,
                   letterIndex, iters, reported, pipe, diskVars, exited>>

LoopIter ==
    /\ phase = "sampling"
    /\ LoopCond(SamplerState, letterGroups)
    /\ LET st == LoopStep(SamplerState, letterGroups)
       IN /\ SetSampler(st)
          /\ phase' = IF st.brk THEN "selected" ELSE "sampling"
    /\ UNCHANGED <<inputVars, letterGroups, reported, pipe, diskVars, exited>>

LoopExit ==
    /\ phase = "sampling"
    /\ ~LoopCond(SamplerState, letterGroups)
    /\ phase' = "selected"
    /\ UNCHANGED <<inputVars, samplerVars, reported, pipe, diskVars, exited>>

Next ==
    \/ ProcessExport
    \/ ExportFails
    \/ \E r \in DOMAIN pipe : HeroFetched(r)
    \/ \E r \in DOMAIN pipe : ImageFetched(r)
    \/ \E r \in DOMAIN pipe : ConvertDone(r)
    \/ \E r \in DOMAIN pipe : WriteDone(r)
    \/ UnhandledRejection

NextRerun ==
    \/ Next
    \/ \E r \in DOMAIN pipe : Rerun(r)

NextSample ==
    \/ BeginSample
    \/ SelectAll
    \/ LoopIter
    \/ LoopExit

Spec == Init /\ [][Next]_vars

SpecLocalize == InitLocalize /\ [][Next]_vars

SpecRerun == InitLocalize /\ [][NextRerun]_vars

SpecSample == InitSample /\ [][NextSample]_vars

----------------------------------------------------------------------------
\* Properties.

Min(a, b) == IF a < b THEN a ELSE b

\* processImages has returned in pipeline p.
ImagesReturned(p) == p.pc \in {"convert", "write", "done", "rejected"}

\* The processImage calls made by processImages (not the hero call) in the
\* given run of pipeline p.
BodyCalls(p, n) ==
    {i \in 1..Len(p.calls) : p.calls[i].k > 0 /\ p.calls[i].pass = n}

\* C1: when the pipeline of one record fails (its promise rejects), only
\* that pipeline is aborted: the process does not exit, so the other
\* pipelines are not cut off.
C1_RecordFailureIsIsolated ==
    \A r \in DOMAIN pipe : pipe[r].pc = "rejected" => ~exited

\* C2: the extension of every image file written is the one of the content
\* type of the downloaded bytes, not the suffix of the URL path.
C2_ExtensionIsSniffedType ==
    \A f \in files : ExtOf(f.name) = f.type

\* C3: once processImages has returned, the body holds no literal occurrence
\* of any URL found by the scan whose download succeeded, as that URL was
\* written in the input body.
C3_NoFetchedUrlLeft ==
    \A r \in DOMAIN pipe :
        ImagesReturned(pipe[r]) =>
            \A i \in BodyCalls(pipe[r], 1) :
                pipe[r].calls[i].ok =>
                    ~Contains(pipe[r].postData, pipe[r].matches[pipe[r].calls[i].k])

\* C4: the hero header value is the first localized asset that is not a
\* gif, in localization order with the metadata hero image first, and the
\* default asset path only when there is no such asset.
C4_HeroIsFirstLocalizedNonGif ==
    \A r \in DOMAIN pipe :
        pipe[r].pc \in {"write", "done"} =>
            pipe[r].heroField = HeroLine(FindHero(pipe[r].saved))

\* C5: the number of distinct asset names processImages returns equals the
\* number of distinct URLs of the body that were downloaded successfully.
C5_OneNamePerFetchedUrl ==
    \A r \in DOMAIN pipe :
        ImagesReturned(pipe[r]) =>
            Cardinality(SeqToSet(pipe[r].images)) =
            Cardinality({CleanUrl(pipe[r].calls[i].url) :
                            i \in {j \in BodyCalls(pipe[r], 1) : pipe[r].calls[j].ok}})

\* C6: processImages run on the body returned by a run whose downloads all
\* succeeded returns that body unchanged, rewrites nothing, and sends no
\* request for a reference that is already relative.
C6_RerunChangesNothing ==
    \A r \in DOMAIN pipe :
        (pipe[r].pass = 2 /\ ImagesReturned(pipe[r])) =>
            /\ pipe[r].postData = pipe[r].passInput
            /\ \A i \in BodyCalls(pipe[r], 2) :
                  /\ pipe[r].calls[i].bodyOut = pipe[r].calls[i].bodyIn
                  /\ ~IsAbsolute(CleanUrl(pipe[r].calls[i].url)) =>
                        [slug |-> pipe[r].slug, pass |-> 2,
                         url |-> CleanUrl(pipe[r].calls[i].url)] \notin requests

\* C7: in the limited-sampling branch (0 < limit < total) the loop ends
\* after at most limit * (number of groups) iterations, with exactly limit
\* posts selected, none twice, from at least min(limit, number of
\* first-letter groups) groups.
C7_SamplerSelectsExactlyLimit ==
    /\ phase = "sampling" => iters <= limit * Len(letterGroups)
    /\ (phase = "selected" /\ Sampling(allPosts, limit)) =>
          /\ Len(postsToProcess) = limit
          /\ \A i, j \in 1..Len(postsToProcess) :
                postsToProcess[i].id = postsToProcess[j].id => i = j
          /\ \A i \in 1..Len(postsToProcess) :
                \E j \in 1..Len(allPosts) : allPosts[j] = postsToProcess[i]
          /\ Cardinality({FirstLetter(postsToProcess[i].title) :
                             i \in 1..Len(postsToProcess)})
                >= Min(limit, Cardinality({FirstLetter(allPosts[i].title) :
                                              i \in 1..Len(allPosts)}))

\* A sampling run that went round the groups more than once.
C7_Witness ==
    /\ phase = "selected"
    /\ Sampling(allPosts, limit)
    /\ Len(letterGroups) >= 2
    /\ iters > Len(letterGroups)
    /\ Len(postsToProcess) = limit

\* Pipeline r takes a step in which a processImage call made by
\* processImages returns after a failed download.
FailedImageStep(r) ==
    /\ Len(pipe'[r].calls) = Len(pipe[r].calls) + 1
    /\ Last(pipe'[r].calls).k > 0
    /\ ~Last(pipe'[r].calls).ok

\* C8: a failed download inside processImages does not fail the pipeline:
\* the step leaves the body, the asset list, the files and the directories
\* as they were, and the loop goes on to the next match; when processImages
\* returns, every match with a non-empty URL has been processed.
C8_FetchFailureIsNotFatal ==
    [][\A r \in DOMAIN pipe :
          /\ FailedImageStep(r) =>
                /\ pipe'[r].postData = pipe[r].postData
                /\ pipe'[r].images = pipe[r].images
                /\ files' = files
                /\ dirs' = dirs
                /\ pipe'[r].pc \in {"img", "convert"}
                /\ (\E k \in (Last(pipe'[r].calls).k + 1)..Len(pipe[r].matches) :
                        Len(trim(pipe[r].matches[k])) > 0)
                     => pipe'[r].pc = "img"
          /\ ImagesReturned(pipe'[r]) =>
                \A k \in 1..Len(pipe'[r].matches) :
                    Len(trim(pipe'[r].matches[k])) > 0 =>
                        \E i \in BodyCalls(pipe'[r], 1) : pipe'[r].calls[i].k = k
      ]_vars

\* A body image whose download failed, followed by a later match that was
\* processed and saved.
C8_Witness ==
    \E r \in DOMAIN pipe :
        \E i, j \in BodyCalls(pipe[r], 1) :
            /\ ~pipe[r].calls[i].ok
            /\ pipe[r].calls[j].k > pipe[r].calls[i].k
            /\ pipe[r].calls[j].wrote
            /\ Contains(pipe[r].postData, pipe[r].matches[pipe[r].calls[i].k])

\* C9: the report gives the number of pipelines launched; it is made in the
\* step that launches them, when no pipeline has settled and no document
\* has been written, and it never changes afterwards.
C9_ReportCountsLaunched ==
    /\ [](/\ phase = "launched" => reported = Len(pipe)
          /\ reported # -1 => reported = Len(postsToProcess)
          /\ mdx # {} => reported # -1)
    /\ [][/\ (reported = -1 /\ reported' # -1) =>
                /\ mdx' = {}
                /\ \A r \in DOMAIN pipe' :
                      pipe'[r].pc \in {"hero", "img", "convert"}
          /\ reported # -1 => reported' = reported
        ]_vars

\* Two pipelines were reported as processed; one rejected and the other
\* wrote its document.
C9_Witness ==
    /\ reported = 2
    /\ \E r1, r2 \in DOMAIN pipe :
          /\ pipe[r1].pc = "rejected"
          /\ pipe[r2].pc = "done"
          /\ pipe[r2].slug \in mdx

\* The body a pipeline's next processImage call must be given: the one the
\* last returned call produced, the post's own body before any call.
ThreadedBody(p) ==
    IF Len(p.calls) = 0 THEN p.post.body ELSE Last(p.calls).bodyOut

\* C10: within one record at most one download is in progress; the calls
\* are made hero first, then the matches in order, each started after the
\* previous one returned and given the body that one returned; a record's
\* body and asset list come from its own calls only.
C10_OneImageAtATimePerRecord ==
    \A r \in DOMAIN pipe :
        LET p == pipe[r] IN
        /\ Cardinality(p.fetching) <= 1
        /\ \A i, j \in 1..Len(p.calls) : i < j => p.calls[i].k < p.calls[j].k
        /\ \A i \in 1..Len(p.calls) : p.calls[i].k = 0 => i = 1
        /\ \A c \in p.fetching :
              /\ \A i \in 1..Len(p.calls) : p.calls[i].k < c.k
              /\ c.postData = ThreadedBody(p)
        /\ \A i \in 1..Len(p.calls) :
              p.calls[i].bodyIn =
                  IF i = 1 THEN p.post.body ELSE p.calls[i - 1].bodyOut
        /\ p.postData = ThreadedBody(p)
        /\ \A n \in SeqToSet(p.images) :
              \E i \in 1..Len(p.calls) : p.calls[i].wrote /\ p.calls[i].name = n

\* Two pipelines each have a download in progress, one of them after an
\* earlier call of its own rewrote its body.
C10_Witness ==
    \E r1, r2 \in DOMAIN pipe :
        /\ r1 # r2
        /\ pipe[r1].pc = "img"
        /\ pipe[r2].pc \in {"hero", "img"}
        /\ Len(pipe[r1].calls) >= 1
        /\ Last(pipe[r1].calls).k > 0
        /\ Last(pipe[r1].calls).bodyOut # Last(pipe[r1].calls).bodyIn

====
